---- MODULE Spec2Model ----
(***************************************************************************)
(* State-machine model of the yosip-api server: the cart store with its    *)
(* in-memory per-identity gate, the product catalog, the order ledger and  *)
(* the two payment reconciliation handlers.                                *)
(*                                                                         *)
(* Every handler is an async function: it runs atomically from one await   *)
(* to the next, and other requests run in between.  One action of the      *)
(* model is one such segment.  Database documents are read into a local    *)
(* copy by find* and written back by save(); save() of an existing         *)
(* document sends only the modified paths, with mongoose's array           *)
(* versioning (__v).                                                       *)
(***************************************************************************)
EXTENDS Integers, Sequences, FiniteSets, TLC

(* ----------------------------- bounds ---------------------------------- *)
NReq == 3          \* request slots (requests that may be in flight together)
NPair == 2         \* slots used when every kind of cart request is mixed
MaxStock == 2      \* largest initial stock of a product
MaxQty == 2        \* largest quantity a request asks for
MaxCarts == 3      \* cart documents ever created (ids are not reused)

(* ----------------------------- universe -------------------------------- *)
None == "none"
Users == {"u1"}
Sessions == {"s1"}
Idents == Users \cup Sessions
ProductIds == {"p1", "p2"}
BadId == "bad"         \* a string that is not a well-formed ObjectId
CReq == 1..NReq
CartIds == 1..MaxCarts

NOrd == 2          \* order and payment requests that may be in flight together
MaxOrders == 2     \* order documents ever stored (ids are not reused)
OReq == 1..NOrd
OrderIds == 1..MaxOrders

\* products, carts and orders are the three collections of the database;
\* cartLocks is the in-memory Map; creq and oreq hold the requests in flight
\* (cart requests, order and payment requests); db0 is the database as it
\* was at start-up, kept for stating the properties.
VARIABLES products, carts, nextCartId, cartLocks, creq, orders, nextOrderId, oreq, db0

vars == <<products, carts, nextCartId, cartLocks, creq, orders, nextOrderId, oreq, db0>>

\* What no cart request touches.
outsideCart == <<orders, nextOrderId, oreq, db0>>

(* ------------------------- cart documents ------------------------------ *)
Item(p, q) == [productId |-> p, quantity |-> q]

NoCart == [exists |-> FALSE, userId |-> None, sessionId |-> None, items |-> <<>>, v |-> 0]

CartRec(u, s, its, ver) == [exists |-> TRUE, userId |-> u, sessionId |-> s, items |-> its, v |-> ver]

\* The local copy of a cart document held by a request.  pushed counts the
\* items appended with push(), setIdx holds the indices whose quantity was
\* assigned, whole is set when the array was replaced or spliced.
NoDoc == [id |-> 0, isNew |-> FALSE, userId |-> None, sessionId |-> None, items |-> <<>>, v |-> 0, pushed |-> 0, setIdx |-> {}, whole |-> FALSE, rekey |-> FALSE]

Hydrate(cs, i) == [NoDoc EXCEPT !.id = i, !.userId = cs[i].userId, !.sessionId = cs[i].sessionId, !.items = cs[i].items, !.v = cs[i].v]

NewCartDoc(u, s) == [NoDoc EXCEPT !.isNew = TRUE, !.userId = u, !.sessionId = s]

IsUser(k) == k \in Users

FilterUser(k) == IF IsUser(k) THEN k ELSE None

\* The session identity kept beside a user identity.
FilterSessionKept(k) == k

FilterSession(k) == IF IsUser(k) THEN None ELSE k

Matches(c, k) == c.exists /\ (IF IsUser(k) THEN c.userId = k ELSE c.sessionId = k)

\* Cart.findOne(filter): the first matching document in insertion order, 0 when none.
FindOne(cs, k) == IF \E i \in CartIds : Matches(cs[i], k) THEN CHOOSE i \in CartIds : Matches(cs[i], k) /\ \A j \in CartIds : Matches(cs[j], k) => i <= j ELSE 0

FindDoc(cs, k) == IF FindOne(cs, k) = 0 THEN NoDoc ELSE Hydrate(cs, FindOne(cs, k))

\* items.findIndex(item => item.productId.toString() === productId.toString()), 1-based, 0 when absent.
FindIndex(its, p) == IF \E i \in 1..Len(its) : its[i].productId = p THEN CHOOSE i \in 1..Len(its) : its[i].productId = p /\ \A j \in 1..Len(its) : its[j].productId = p => i <= j ELSE 0

QtyOf(its, p) == IF FindIndex(its, p) = 0 THEN 0 ELSE its[FindIndex(its, p)].quantity

\* cartSchema.path('items').validate: productIds.length === new Set(productIds).size
NoDuplicateProducts(its) == \A i, j \in 1..Len(its) : its[i].productId = its[j].productId => i = j

\* items.quantity: { min: 1 }
QuantityMin(its) == \A i \in 1..Len(its) : its[i].quantity >= 1

ValidCartDoc(d) == NoDuplicateProducts(d.items) /\ QuantityMin(d.items)

Tail2(s, n) == SubSeq(s, Len(s) - n + 1, Len(s))

Modified(d) == d.pushed > 0 \/ d.setIdx # {} \/ d.whole \/ d.rekey

\* mongoose operand(): $set of the whole array, or push() mixed with element
\* assignments, sends {$set: {items}} with __v in the query and $inc __v.
SendsWholeArray(d) == d.whole \/ (d.pushed > 0 /\ d.setIdx # {})

\* Element assignments alone send $set items.<i>.quantity with __v in the query.
SendsPositional(d) == ~d.whole /\ d.pushed = 0 /\ d.setIdx # {}

\* push() alone sends $push and $inc __v, without __v in the query.
SendsPush(d) == ~d.whole /\ d.pushed > 0 /\ d.setIdx = {}

SetQuantities(its, d) == [i \in 1..Len(its) |-> IF i \in d.setIdx /\ i <= Len(d.items) THEN [its[i] EXCEPT !.quantity = d.items[i].quantity] ELSE its[i]]

\* cart.save().  Result: ok, and the collection afterwards.
SaveCart(cs, nid, d) ==
  IF ~Modified(d) /\ ~d.isNew THEN [ok |-> TRUE, carts |-> cs]
  ELSE IF ~ValidCartDoc(d) THEN [ok |-> FALSE, carts |-> cs]
  ELSE IF d.isNew THEN [ok |-> TRUE, carts |-> [cs EXCEPT ![nid] = CartRec(d.userId, d.sessionId, d.items, 0)]]
  ELSE IF ~cs[d.id].exists THEN [ok |-> FALSE, carts |-> cs]
  ELSE IF SendsWholeArray(d) THEN
         IF cs[d.id].v # d.v THEN [ok |-> FALSE, carts |-> cs]
         ELSE [ok |-> TRUE, carts |-> [cs EXCEPT ![d.id].items = d.items, ![d.id].v = d.v + 1, ![d.id].userId = d.userId, ![d.id].sessionId = d.sessionId]]
  ELSE IF SendsPositional(d) THEN
         IF cs[d.id].v # d.v THEN [ok |-> FALSE, carts |-> cs]
         ELSE [ok |-> TRUE, carts |-> [cs EXCEPT ![d.id].items = SetQuantities(cs[d.id].items, d)]]
  ELSE IF SendsPush(d) THEN [ok |-> TRUE, carts |-> [cs EXCEPT ![d.id].items = cs[d.id].items \o Tail2(d.items, d.pushed), ![d.id].v = cs[d.id].v + 1]]
  ELSE [ok |-> TRUE, carts |-> [cs EXCEPT ![d.id].userId = d.userId, ![d.id].sessionId = d.sessionId]]

\* mongoose assigns _id in the constructor; the model numbers documents at insertion.
CanInsert(d) == d.isNew => nextCartId <= MaxCarts

BumpId(d, res) == IF d.isNew /\ res.ok THEN nextCartId + 1 ELSE nextCartId

(* --------------------------- the gate ---------------------------------- *)
\* acquireLock: the test cartLocks.has(key) and cartLocks.set(key, true) run
\* without an await between them.
LockFree(locks, key) == key \notin locks

AcquireLockSet(locks, key) == locks \cup {key}

\* releaseLock(key): cartLocks.delete(key)
ReleaseLock(locks, key) == locks \ {key}

\* An exit path that leaves without releasing.
FinallyReleaseSkipped(locks, key, acquired) == locks

\* The finally block of POST /cart/add: releaseLock(lockKey), whether or not
\* this request acquired the key.
FinallyRelease(locks, key, acquired) == ReleaseLock(locks, key)

(* --------------------------- requests ---------------------------------- *)
IdleReq == [kind |-> "idle", pc |-> "idle", ident |-> None, guest |-> None, pid |-> None, qty |-> 0, frac |-> FALSE, stock |-> 0, doc |-> NoDoc, gdoc |-> NoDoc, status |-> 0]

AddQtys == (-1)..MaxQty

\* The comparison with the bound off by one.
ExceedsStockLoose(n, stock) == n > stock + 1

\* quantity > product.stock, newQuantity > product.stock
ExceedsStock(n, stock) == n > stock

\* Lines 1370-1395: increment the existing line, or push a new one.
AddToDoc(cart, p, n, stock) ==
  LET i == FindIndex(cart.items, p) IN
  IF i > 0
  THEN IF ExceedsStock(cart.items[i].quantity + n, stock)
       THEN [ok |-> FALSE, doc |-> cart]
       ELSE [ok |-> TRUE, doc |-> [cart EXCEPT !.items[i].quantity = cart.items[i].quantity + n, !.setIdx = cart.setIdx \cup {i}]]
  ELSE [ok |-> TRUE, doc |-> [cart EXCEPT !.items = Append(cart.items, Item(p, n)), !.pushed = cart.pushed + 1]]

IsValidObjectId(x) == x # BadId /\ x # None

\* Slots are interchangeable: a slot is taken only when the one before it is.
CanBegin(r) == creq[r].kind = "idle" /\ (IF r = 1 THEN TRUE ELSE creq[r - 1].kind # "idle")

\* A finished request keeps its kind and status; an add and a remove also keep their arguments.
Done(q, code) == IF q.kind \in {"add", "remove"} THEN [q EXCEPT !.pc = "done", !.status = code, !.stock = 0, !.doc = NoDoc, !.gdoc = NoDoc] ELSE [IdleReq EXCEPT !.kind = q.kind, !.pc = "done", !.status = code]

Holding(q) == q.kind = "add" /\ q.pc \in {"findProduct", "findCart", "save", "populate"}

(* ------------------------- POST /cart/add ------------------------------ *)
\* The segment that follows a successful acquireLock: the synchronous checks
\* up to the first database call.  An early return runs the finally block,
\* which releases the lock.
AddAfterAcquire(r, q) ==
  IF ~IsValidObjectId(q.pid)
  THEN /\ creq' = [creq EXCEPT ![r] = Done(q, 400)]
       /\ cartLocks' = ReleaseLock(AcquireLockSet(cartLocks, q.ident), q.ident)
  ELSE /\ creq' = [creq EXCEPT ![r] = [q EXCEPT !.pc = "findProduct"]]
       /\ cartLocks' = AcquireLockSet(cartLocks, q.ident)

AddBeginWith(r, ks, ps, ns) ==
  /\ CanBegin(r)
  /\ \E k \in ks, p \in ps, n \in ns :
       LET q == [IdleReq EXCEPT !.kind = "add", !.ident = k, !.pid = p, !.qty = n] IN
       IF LockFree(cartLocks, k)
       THEN AddAfterAcquire(r, q)
       ELSE /\ creq' = [creq EXCEPT ![r] = [q EXCEPT !.pc = "waiting"]]
            /\ UNCHANGED cartLocks
  /\ UNCHANGED <<outsideCart, products, carts, nextCartId>>

AddBegin(r) == AddBeginWith(r, Idents, ProductIds \cup {BadId}, AddQtys)

\* A poll of acquireLock that finds the key free.
AddAcquire(r) ==
  /\ creq[r].kind = "add" /\ creq[r].pc = "waiting"
  /\ LockFree(cartLocks, creq[r].ident)
  /\ AddAfterAcquire(r, creq[r])
  /\ UNCHANGED <<outsideCart, products, carts, nextCartId>>

\* acquireLock returning after maxWait as if the key had been acquired.
AddTimeoutProceeding(r) ==
  /\ creq[r].kind = "add" /\ creq[r].pc = "waiting"
  /\ ~LockFree(cartLocks, creq[r].ident)
  /\ AddAfterAcquire(r, creq[r])
  /\ UNCHANGED <<outsideCart, products, carts, nextCartId>>

\* A poll that finds the key held after maxWait has elapsed: acquireLock
\* throws, the catch block answers 500 and the finally block calls
\* releaseLock(lockKey).
AddTimeout(r) ==
  /\ creq[r].kind = "add" /\ creq[r].pc = "waiting"
  /\ ~LockFree(cartLocks, creq[r].ident)
  /\ creq' = [creq EXCEPT ![r] = Done(creq[r], 500)]
  /\ cartLocks' = FinallyRelease(cartLocks, creq[r].ident, FALSE)
  /\ UNCHANGED <<outsideCart, products, carts, nextCartId>>

AddFindProduct(r) ==
  /\ creq[r].kind = "add" /\ creq[r].pc = "findProduct"
  /\ LET q == creq[r]
         prod == products[q.pid]
     IN IF ~prod.exists
        THEN creq' = [creq EXCEPT ![r] = Done(q, 404)] /\ cartLocks' = FinallyRelease(cartLocks, q.ident, TRUE)
        ELSE IF ~prod.isActive \/ ExceedsStock(q.qty, prod.stock)
        THEN creq' = [creq EXCEPT ![r] = Done(q, 400)] /\ cartLocks' = FinallyRelease(cartLocks, q.ident, TRUE)
        ELSE creq' = [creq EXCEPT ![r] = [q EXCEPT !.pc = "findCart", !.stock = prod.stock]] /\ UNCHANGED cartLocks
  /\ UNCHANGED <<outsideCart, products, carts, nextCartId>>

AddFindCart(r) ==
  /\ creq[r].kind = "add" /\ creq[r].pc = "findCart"
  /\ LET q == creq[r]
         found == FindDoc(carts, q.ident)
         cart == IF found.id = 0 THEN NewCartDoc(FilterUser(q.ident), FilterSession(q.ident)) ELSE found
         res == AddToDoc(cart, q.pid, q.qty, q.stock)
     IN IF ~res.ok
        THEN creq' = [creq EXCEPT ![r] = Done(q, 400)] /\ cartLocks' = FinallyRelease(cartLocks, q.ident, TRUE)
        ELSE creq' = [creq EXCEPT ![r] = [q EXCEPT !.pc = "save", !.doc = res.doc]] /\ UNCHANGED cartLocks
  /\ UNCHANGED <<outsideCart, products, carts, nextCartId>>

AddSave(r) ==
  /\ creq[r].kind = "add" /\ creq[r].pc = "save"
  /\ CanInsert(creq[r].doc)
  /\ LET q == creq[r]
         res == SaveCart(carts, nextCartId, q.doc)
     IN /\ carts' = res.carts
        /\ nextCartId' = BumpId(q.doc, res)
        /\ IF res.ok
           THEN creq' = [creq EXCEPT ![r] = [q EXCEPT !.pc = "populate", !.doc = NoDoc]] /\ UNCHANGED cartLocks
           ELSE creq' = [creq EXCEPT ![r] = Done([q EXCEPT !.doc = NoDoc], 500)] /\ cartLocks' = FinallyRelease(cartLocks, q.ident, TRUE)
  /\ UNCHANGED <<outsideCart, products>>

\* await cart.populate(...), the response, and the finally block.
AddPopulate(r) ==
  /\ creq[r].kind = "add" /\ creq[r].pc = "populate"
  /\ creq' = [creq EXCEPT ![r] = Done(creq[r], 200)]
  /\ cartLocks' = FinallyRelease(cartLocks, creq[r].ident, TRUE)
  /\ UNCHANGED <<outsideCart, products, carts, nextCartId>>

(* ------------------------- PUT /cart/update ---------------------------- *)
UpdateQtys == (-1)..MaxQty

\* The test without its integer part.
BadUpdateQuantityNegativeOnly(n, frac) == n < 0

\* quantity < 0 || !Number.isInteger(quantity), for the quantity n, or n + 1/2
\* when frac.
BadUpdateQuantity(n, frac) == n < 0 \/ frac

\* cart.items.splice(itemIndex, 1)
Splice(its, i) == SubSeq(its, 1, i - 1) \o SubSeq(its, i + 1, Len(its))

UpdateBegin(r) ==
  /\ CanBegin(r)
  /\ \E k \in Idents, p \in ProductIds, n \in UpdateQtys, frac \in BOOLEAN :
       LET q == [IdleReq EXCEPT !.kind = "update", !.ident = k, !.pid = p, !.qty = n, !.frac = frac] IN
       IF ~IsValidObjectId(p) \/ BadUpdateQuantity(n, frac)
       THEN creq' = [creq EXCEPT ![r] = Done(q, 400)]
       ELSE creq' = [creq EXCEPT ![r] = [q EXCEPT !.pc = "findCart"]]
  /\ UNCHANGED <<outsideCart, products, carts, nextCartId, cartLocks>>

UpdateFindCart(r) ==
  /\ creq[r].kind = "update" /\ creq[r].pc = "findCart"
  /\ LET q == creq[r]
         cart == FindDoc(carts, q.ident)
         i == FindIndex(cart.items, q.pid)
     IN IF cart.id = 0 \/ i = 0
        THEN creq' = [creq EXCEPT ![r] = Done(q, 404)]
        ELSE IF q.qty = 0
        THEN creq' = [creq EXCEPT ![r] = [q EXCEPT !.pc = "save", !.doc = [cart EXCEPT !.items = Splice(cart.items, i), !.whole = TRUE]]]
        ELSE creq' = [creq EXCEPT ![r] = [q EXCEPT !.pc = "findProduct", !.doc = cart]]
  /\ UNCHANGED <<outsideCart, products, carts, nextCartId, cartLocks>>

UpdateFindProduct(r) ==
  /\ creq[r].kind = "update" /\ creq[r].pc = "findProduct"
  /\ LET q == creq[r]
         prod == products[q.pid]
         i == FindIndex(q.doc.items, q.pid)
     IN IF ~prod.exists
        THEN creq' = [creq EXCEPT ![r] = Done(q, 404)]
        ELSE IF ExceedsStock(q.qty, prod.stock)
        THEN creq' = [creq EXCEPT ![r] = Done(q, 400)]
        ELSE creq' = [creq EXCEPT ![r] = [q EXCEPT !.pc = "save", !.doc = [q.doc EXCEPT !.items[i].quantity = q.qty, !.setIdx = IF q.doc.items[i].quantity = q.qty THEN {} ELSE {i}]]]
  /\ UNCHANGED <<outsideCart, products, carts, nextCartId, cartLocks>>

UpdateSave(r) ==
  /\ creq[r].kind = "update" /\ creq[r].pc = "save"
  /\ LET q == creq[r]
         res == SaveCart(carts, nextCartId, q.doc)
     IN /\ carts' = res.carts
        /\ creq' = [creq EXCEPT ![r] = Done(q, IF res.ok THEN 200 ELSE 500)]
  /\ UNCHANGED <<outsideCart, products, nextCartId, cartLocks>>

(* ------------------------ DELETE /cart/remove -------------------------- *)
\* req.session?.userId || req.user?._id : no middleware of the application
\* sets req.session or req.user.
RemoveUserId(k) == None

\* req.sessionID : set by no middleware of the application; the route does
\* not run ensureGuestSession, which sets req.sessionId.
RemoveSessionId(k) == None

\* cart.items.filter(item => item.productId.toString() !== productId)
FilterOut(its, p) == SelectSeq(its, LAMBDA it : it.productId # p)

RemoveKey(k) == IF RemoveUserId(k) # None THEN RemoveUserId(k) ELSE RemoveSessionId(k)

CartRemove(r) ==
  /\ CanBegin(r)
  /\ \E k \in Idents, p \in ProductIds :
       LET q == [IdleReq EXCEPT !.kind = "remove", !.ident = k, !.pid = p] IN
       IF RemoveKey(k) = None
       THEN creq' = [creq EXCEPT ![r] = Done(q, 400)]
       ELSE creq' = [creq EXCEPT ![r] = [q EXCEPT !.pc = "findCart", !.ident = RemoveKey(k)]]
  /\ UNCHANGED <<outsideCart, products, carts, nextCartId, cartLocks>>

RemoveFindCart(r) ==
  /\ creq[r].kind = "remove" /\ creq[r].pc = "findCart"
  /\ LET q == creq[r]
         cart == FindDoc(carts, q.ident)
     IN IF cart.id = 0
        THEN creq' = [creq EXCEPT ![r] = Done(q, 404)]
        ELSE creq' = [creq EXCEPT ![r] = [q EXCEPT !.pc = "save", !.doc = [cart EXCEPT !.items = FilterOut(cart.items, q.pid), !.whole = TRUE]]]
  /\ UNCHANGED <<outsideCart, products, carts, nextCartId, cartLocks>>

RemoveSave(r) ==
  /\ creq[r].kind = "remove" /\ creq[r].pc = "save"
  /\ LET q == creq[r]
         res == SaveCart(carts, nextCartId, q.doc)
     IN /\ carts' = res.carts
        /\ creq' = [creq EXCEPT ![r] = Done(q, IF res.ok THEN 200 ELSE 500)]
  /\ UNCHANGED <<outsideCart, products, nextCartId, cartLocks>>

\* The handler run alone from collection cs, for the request of identity k
\* to remove product p: the collection it leaves.
RemoveOutcome(cs, k, p) ==
  IF RemoveKey(k) = None \/ FindOne(cs, RemoveKey(k)) = 0 THEN cs
  ELSE LET cart == FindDoc(cs, RemoveKey(k))
       IN SaveCart(cs, nextCartId, [cart EXCEPT !.items = FilterOut(cart.items, p), !.whole = TRUE]).carts

(* ------------------------ DELETE /cart/clear --------------------------- *)
ClearBegin(r) ==
  /\ CanBegin(r)
  /\ \E k \in Idents :
       creq' = [creq EXCEPT ![r] = [IdleReq EXCEPT !.kind = "clear", !.ident = k, !.pc = "findCart"]]
  /\ UNCHANGED <<outsideCart, products, carts, nextCartId, cartLocks>>

ClearFindCart(r) ==
  /\ creq[r].kind = "clear" /\ creq[r].pc = "findCart"
  /\ LET q == creq[r]
         cart == FindDoc(carts, q.ident)
     IN IF cart.id = 0
        THEN creq' = [creq EXCEPT ![r] = Done(q, 404)]
        ELSE creq' = [creq EXCEPT ![r] = [q EXCEPT !.pc = "save", !.doc = [cart EXCEPT !.items = <<>>, !.whole = (cart.items # <<>>)]]]
  /\ UNCHANGED <<outsideCart, products, carts, nextCartId, cartLocks>>

ClearSave(r) ==
  /\ creq[r].kind = "clear" /\ creq[r].pc = "save"
  /\ LET q == creq[r]
         res == SaveCart(carts, nextCartId, q.doc)
     IN /\ carts' = res.carts
        /\ creq' = [creq EXCEPT ![r] = Done(q, IF res.ok THEN 200 ELSE 500)]
  /\ UNCHANGED <<outsideCart, products, nextCartId, cartLocks>>

(* -------------------------- POST /cart/merge --------------------------- *)
\* The guest items left out of the user cart.
MergeItemsDropped(ucart, gitems) == ucart

\* The user identity assigned with the session identity kept.
RekeyKeepingSession(gdoc, u) == [gdoc EXCEPT !.userId = u, !.rekey = TRUE]

\* guestCart.userId = userId; guestCart.sessionId = undefined
Rekey(gdoc, u) == [gdoc EXCEPT !.userId = u, !.sessionId = None, !.rekey = TRUE]

RECURSIVE MergeItems(_, _)
\* Lines 1739-1749: for each guest item, add to the matching user line or push it.
MergeItems(ucart, gitems) ==
  IF gitems = <<>> THEN ucart
  ELSE LET g == Head(gitems)
           i == FindIndex(ucart.items, g.productId)
           next == IF i > 0
                   THEN [ucart EXCEPT !.items[i].quantity = ucart.items[i].quantity + g.quantity, !.setIdx = ucart.setIdx \cup {i}]
                   ELSE [ucart EXCEPT !.items = Append(ucart.items, g), !.pushed = ucart.pushed + 1]
       IN MergeItems(next, Tail(gitems))

MergeBegin(r) ==
  /\ CanBegin(r)
  /\ \E u \in Users, s \in Sessions :
       creq' = [creq EXCEPT ![r] = [IdleReq EXCEPT !.kind = "merge", !.ident = u, !.guest = s, !.pc = "findGuest"]]
  /\ UNCHANGED <<outsideCart, products, carts, nextCartId, cartLocks>>

MergeFindGuest(r) ==
  /\ creq[r].kind = "merge" /\ creq[r].pc = "findGuest"
  /\ creq' = [creq EXCEPT ![r].pc = "findUser", ![r].gdoc = FindDoc(carts, creq[r].guest)]
  /\ UNCHANGED <<outsideCart, products, carts, nextCartId, cartLocks>>

MergeFindUser(r) ==
  /\ creq[r].kind = "merge" /\ creq[r].pc = "findUser"
  /\ LET q == creq[r]
         userCart == FindDoc(carts, q.ident)
     IN IF q.gdoc.id = 0 \/ Len(q.gdoc.items) = 0
        THEN IF userCart.id = 0
             THEN creq' = [creq EXCEPT ![r] = [q EXCEPT !.pc = "save", !.doc = NewCartDoc(q.ident, None), !.gdoc = NoDoc]]
             ELSE creq' = [creq EXCEPT ![r] = Done(q, 200)]
        ELSE IF userCart.id = 0
        THEN creq' = [creq EXCEPT ![r] = [q EXCEPT !.pc = "save", !.doc = Rekey(q.gdoc, q.ident), !.gdoc = NoDoc]]
        ELSE creq' = [creq EXCEPT ![r] = [q EXCEPT !.pc = "save", !.doc = MergeItems(userCart, q.gdoc.items)]]
  /\ UNCHANGED <<outsideCart, products, carts, nextCartId, cartLocks>>

\* userCart.save() of the three branches; only the merging branch goes on to deleteOne.
MergeSave(r) ==
  /\ creq[r].kind = "merge" /\ creq[r].pc = "save"
  /\ CanInsert(creq[r].doc)
  /\ LET q == creq[r]
         res == SaveCart(carts, nextCartId, q.doc)
     IN /\ carts' = res.carts
        /\ nextCartId' = BumpId(q.doc, res)
        /\ IF ~res.ok THEN creq' = [creq EXCEPT ![r] = Done(q, 500)]
           ELSE IF q.gdoc.id = 0 THEN creq' = [creq EXCEPT ![r] = Done(q, 200)]
           ELSE creq' = [creq EXCEPT ![r] = [q EXCEPT !.pc = "delete", !.doc = NoDoc, !.gdoc = NoDoc]]
  /\ UNCHANGED <<outsideCart, products, cartLocks>>

\* Cart.deleteOne({ sessionId })
DeleteOne(cs, k) == IF FindOne(cs, k) = 0 THEN cs ELSE [cs EXCEPT ![FindOne(cs, k)] = NoCart]

MergeDelete(r) ==
  /\ creq[r].kind = "merge" /\ creq[r].pc = "delete"
  /\ carts' = DeleteOne(carts, creq[r].guest)
  /\ creq' = [creq EXCEPT ![r] = Done(creq[r], 200)]
  /\ UNCHANGED <<outsideCart, products, nextCartId, cartLocks>>

(* ------------------------- the Order schema ---------------------------- *)
\* The paths models/Order.js declares.  A key given twice in the schema
\* literal (paymentMethod, paidAt, the payment ids) keeps its last definition.
OrderSchemaPaths == {"user", "items", "shippingAddress", "contactEmail", "paymentMethod", "paymentStatus", "stripePaymentIntentId", "stripeSessionId", "paypalOrderId", "paypalCaptureId", "orderStatus", "subtotal", "shipping", "tax", "total", "orderNotes", "paidAt", "shippedAt", "deliveredAt"}

\* required: true
OrderRequiredPaths == {"contactEmail", "subtotal", "shipping", "tax", "total"}

\* shippingAddress: every sub-path is required.
AddressSchemaKeys == {"fullName", "address", "city", "state", "zipCode", "country", "phone"}

PaymentStatusEnum == {"pending", "completed", "failed", "refunded"}

PaymentMethodEnum == {"stripe", "paypal", "cod"}

\* The keys both handlers pass to new Order({...}).
ControllerOrderKeys == {"orderNumber", "customerId", "customerInfo", "items", "shippingAddress", "totalAmount", "shippingFee", "tax", "paymentMethod", "notes", "status", "paymentStatus"}

\* The address keys POST /orders/create-payment builds (lines 1943-1949).
PaymentAddressKeys == {"street", "city", "state", "zipCode", "country"}

OrderItem(p, q, pr) == [productId |-> p, quantity |-> q, price |-> pr]

NoOrder == [exists |-> FALSE, paths |-> {}, addrKeys |-> {}, items |-> <<>>, paymentStatus |-> None, paymentMethod |-> None, orderStatus |-> None, paid |-> FALSE, paymentRef |-> None, sessionRef |-> None, total |-> 0]

\* What the constructor is given: the keys, and the values the model follows.
\* itemsTotal is the sum of the subtotals of the items given.
OrderArgs(itemsTotal, addr, total, fee, tx, method) == [keys |-> ControllerOrderKeys, addrKeys |-> addr, itemsTotal |-> itemsTotal, totalAmount |-> total, shippingFee |-> fee, tax |-> tx, paymentMethod |-> method, status |-> "pending", paymentStatus |-> "unpaid"]

NoArgs == [keys |-> {}, addrKeys |-> {}, itemsTotal |-> 0, totalAmount |-> 0, shippingFee |-> 0, tax |-> 0, paymentMethod |-> None, status |-> None, paymentStatus |-> None]

\* new Order(args) under the schema's default strict mode: keys that are not
\* schema paths are dropped, item sub-documents keep productId, quantity and
\* price, and defaults fill the paths that were not given.
CastOrder(a, lines) == [NoOrder EXCEPT !.exists = TRUE, !.paths = a.keys \cap OrderSchemaPaths, !.addrKeys = a.addrKeys \cap AddressSchemaKeys, !.items = [i \in 1..Len(lines) |-> OrderItem(lines[i].productId, lines[i].quantity, lines[i].price)], !.paymentStatus = IF "paymentStatus" \in a.keys THEN a.paymentStatus ELSE "pending", !.paymentMethod = IF a.paymentMethod = None THEN "stripe" ELSE a.paymentMethod, !.orderStatus = "pending"]

\* The validation save() runs: required paths, enums, items.quantity min 1.
ValidateOrder(d) ==
  /\ OrderRequiredPaths \subseteq d.paths
  /\ AddressSchemaKeys \subseteq d.addrKeys
  /\ d.paymentStatus \in PaymentStatusEnum
  /\ d.paymentMethod \in PaymentMethodEnum
  /\ \A i \in 1..Len(d.items) : d.items[i].quantity >= 1

\* Reading a property of a hydrated document: a path of the schema, or undefined.
HasPath(path) == path \in OrderSchemaPaths

(* ------------------ POST /orders, /orders/create-payment --------------- *)
Line(p, q) == [productId |-> p, quantity |-> q]

\* The items of a request body: one line of p1, or two lines of quantity 1.
RequestLines == {<<Line("p1", q)>> : q \in 1..MaxQty} \cup {<<Line(a, 1), Line(b, 1)>> : a \in ProductIds, b \in ProductIds}

Methods == {"stripe", "paypal", "cod", "crypto"}

BodyTotals == {0, 7}

\* shippingFee and tax of the body: both absent, or 1 and 2.
FeeChoices == {[shipping |-> 0, tax |-> 0], [shipping |-> 1, tax |-> 2]}

\* The body of a product update: the keys it has and their values.
NoUpdate == [keys |-> {}, price |-> 0, stock |-> 0, isActive |-> FALSE]

IdleOReq == [kind |-> "idle", pc |-> "idle", pid |-> None, upd |-> NoUpdate, lines |-> <<>>, idx |-> 0, stock |-> 0, snap |-> <<>>, args |-> NoArgs, oid |-> 0, sigOk |-> FALSE, etype |-> None, dest |-> None, status |-> 0]

OCanBegin(r) == oreq[r].kind = "idle" /\ (IF r = 1 THEN TRUE ELSE oreq[r - 1].kind # "idle")

\* A finished request keeps its kind, its target and what it answered; a
\* placement also keeps the document it built.
ODone(q, code) == [IdleOReq EXCEPT !.kind = q.kind, !.pc = "done", !.status = code, !.args = q.args, !.oid = q.oid, !.sigOk = q.sigOk, !.etype = IF q.sigOk \/ q.kind = "wallet" THEN q.etype ELSE None]

SnapLine(prod, p, q) == [productId |-> p, quantity |-> q, price |-> prod.price, subtotal |-> prod.price * q]

RECURSIVE SumSubtotals(_)
SumSubtotals(snap) == IF snap = <<>> THEN 0 ELSE Head(snap).subtotal + SumSubtotals(Tail(snap))

\* The comparison with the bound off by one.
InsufficientStockLoose(stock, q) == stock + 1 < q

\* product.stock < item.quantity
InsufficientStock(stock, q) == stock < q

\* Both item loops decrementing.
DecrementsInBothLoops(kind) == TRUE

\* The item loop of POST /orders ends with product.stock -= item.quantity and
\* product.save(); the loop of POST /orders/create-payment has neither.
DecrementsInLoop(kind) == kind = "order"

\* !customerInfo || !items || !items.length || !shippingAddress (and the
\* two tests of create-payment): complete says the body has all of them.
OrderBegin(r) ==
  /\ OCanBegin(r)
  /\ \E ls \in RequestLines, complete \in BOOLEAN :
       LET q == [IdleOReq EXCEPT !.kind = "order", !.lines = ls, !.idx = 1] IN
       IF ~complete
       THEN oreq' = [oreq EXCEPT ![r] = ODone(q, 400)]
       ELSE oreq' = [oreq EXCEPT ![r] = [q EXCEPT !.pc = "findProduct"]]
  /\ UNCHANGED <<products, carts, nextCartId, cartLocks, creq, orders, nextOrderId, db0>>

PayBegin(r) ==
  /\ OCanBegin(r)
  /\ \E ls \in RequestLines, complete \in BOOLEAN :
       LET q == [IdleOReq EXCEPT !.kind = "pay", !.lines = ls, !.idx = 1] IN
       IF ~complete
       THEN oreq' = [oreq EXCEPT ![r] = ODone(q, 400)]
       ELSE oreq' = [oreq EXCEPT ![r] = [q EXCEPT !.pc = "findProduct"]]
  /\ UNCHANGED <<products, carts, nextCartId, cartLocks, creq, orders, nextOrderId, db0>>

\* The item loop with a roll-back: a rejection puts the stock back to what it
\* was at start-up.
PlaceFindProductRestoring(r) ==
  /\ oreq[r].kind \in {"order", "pay"} /\ oreq[r].pc = "findProduct"
  /\ LET q == oreq[r]
         ln == q.lines[q.idx]
         prod == products[ln.productId]
         snap == Append(q.snap, SnapLine(prod, ln.productId, ln.quantity))
     IN IF ~prod.exists \/ InsufficientStock(prod.stock, ln.quantity)
        THEN /\ oreq' = [oreq EXCEPT ![r] = ODone(q, IF ~prod.exists THEN 404 ELSE 400)]
             /\ products' = db0.products
        ELSE /\ UNCHANGED products
             /\ IF DecrementsInLoop(q.kind)
                THEN oreq' = [oreq EXCEPT ![r] = [q EXCEPT !.pc = "saveProduct", !.snap = snap, !.stock = prod.stock - ln.quantity]]
                ELSE IF q.idx < Len(q.lines)
                THEN oreq' = [oreq EXCEPT ![r] = [q EXCEPT !.idx = q.idx + 1, !.snap = snap]]
                ELSE oreq' = [oreq EXCEPT ![r] = [q EXCEPT !.pc = "saveOrder", !.snap = snap]]
  /\ UNCHANGED <<carts, nextCartId, cartLocks, creq, orders, nextOrderId, db0>>

\* One turn of the item loop up to its next await: Product.findById, the two
\* checks, the snapshot line, and for POST /orders the local decrement.
PlaceFindProduct(r) ==
  /\ oreq[r].kind \in {"order", "pay"} /\ oreq[r].pc = "findProduct"
  /\ LET q == oreq[r]
         ln == q.lines[q.idx]
         prod == products[ln.productId]
         snap == Append(q.snap, SnapLine(prod, ln.productId, ln.quantity))
     IN IF ~prod.exists
        THEN oreq' = [oreq EXCEPT ![r] = ODone(q, 404)]
        ELSE IF InsufficientStock(prod.stock, ln.quantity)
        THEN oreq' = [oreq EXCEPT ![r] = ODone(q, 400)]
        ELSE IF DecrementsInLoop(q.kind)
        THEN oreq' = [oreq EXCEPT ![r] = [q EXCEPT !.pc = "saveProduct", !.snap = snap, !.stock = prod.stock - ln.quantity]]
        ELSE IF q.idx < Len(q.lines)
        THEN oreq' = [oreq EXCEPT ![r] = [q EXCEPT !.idx = q.idx + 1, !.snap = snap]]
        ELSE oreq' = [oreq EXCEPT ![r] = [q EXCEPT !.pc = "saveOrder", !.snap = snap]]
  /\ UNCHANGED <<products, carts, nextCartId, cartLocks, creq, orders, nextOrderId, db0>>

\* await product.save(): $set of the stock computed from the copy read before.
OrderSaveProduct(r) ==
  /\ oreq[r].pc = "saveProduct"
  /\ LET q == oreq[r]
         ln == q.lines[q.idx]
     IN /\ products' = [products EXCEPT ![ln.productId].stock = q.stock]
        /\ IF q.idx < Len(q.lines)
           THEN oreq' = [oreq EXCEPT ![r] = [q EXCEPT !.pc = "findProduct", !.idx = q.idx + 1, !.stock = 0]]
           ELSE oreq' = [oreq EXCEPT ![r] = [q EXCEPT !.pc = "saveOrder", !.stock = 0]]
  /\ UNCHANGED <<carts, nextCartId, cartLocks, creq, orders, nextOrderId, db0>>

\* The email helpers read order.customerInfo.email before their try block.
EmailsThrow == ~HasPath("customerInfo")

\* What POST /orders answers after the two email helpers, customerSent and
\* adminSent being what each send reported: a helper that throws ends in the
\* handler's catch, and otherwise the answer is a success either way.
OrderResponse(customerSent, adminSent) == IF EmailsThrow THEN 500 ELSE 200

\* Lines 1133-1177: the total, new Order, order.save(), the two emails.
OrderSaveOrder(r) ==
  /\ oreq[r].kind = "order" /\ oreq[r].pc = "saveOrder"
  /\ nextOrderId <= MaxOrders
  /\ \E f \in FeeChoices :
       LET q == oreq[r]
           args == OrderArgs(SumSubtotals(q.snap), AddressSchemaKeys, SumSubtotals(q.snap) + f.shipping + f.tax, f.shipping, f.tax, "cod")
           doc == CastOrder(args, q.snap)
       IN IF ValidateOrder(doc)
          THEN /\ orders' = [orders EXCEPT ![nextOrderId] = doc]
               /\ nextOrderId' = nextOrderId + 1
               /\ \E customerSent \in BOOLEAN, adminSent \in BOOLEAN :
                    oreq' = [oreq EXCEPT ![r] = ODone([q EXCEPT !.args = args, !.oid = nextOrderId], OrderResponse(customerSent, adminSent))]
          ELSE /\ oreq' = [oreq EXCEPT ![r] = ODone([q EXCEPT !.args = args], 500)]
               /\ UNCHANGED <<orders, nextOrderId>>
  /\ UNCHANGED <<products, carts, nextCartId, cartLocks, creq, db0>>

\* Lines 1934-2109: new Order with the total of the request body, order.save(),
\* then the processor call and the second save.  processorOk is the outcome
\* of stripe.checkout.sessions.create or of the PayPal order request.
PaySaveOrder(r) ==
  /\ oreq[r].kind = "pay" /\ oreq[r].pc = "saveOrder"
  /\ nextOrderId <= MaxOrders
  /\ \E f \in FeeChoices, method \in Methods, total \in BodyTotals, processorOk \in BOOLEAN :
       LET q == oreq[r]
           args == OrderArgs(SumSubtotals(q.snap), PaymentAddressKeys, total, f.shipping, f.tax, method)
           doc == CastOrder(args, q.snap)
           withSession == [doc EXCEPT !.sessionRef = method]
       IN IF ValidateOrder(doc)
          THEN /\ nextOrderId' = nextOrderId + 1
               /\ IF method \in {"stripe", "paypal"} /\ processorOk
                  THEN /\ orders' = [orders EXCEPT ![nextOrderId] = withSession]
                       /\ oreq' = [oreq EXCEPT ![r] = ODone([q EXCEPT !.args = args, !.oid = nextOrderId], 200)]
                  ELSE /\ orders' = [orders EXCEPT ![nextOrderId] = doc]
                       /\ oreq' = [oreq EXCEPT ![r] = ODone([q EXCEPT !.args = args, !.oid = nextOrderId], IF method \in {"stripe", "paypal"} THEN 500 ELSE 0)]
          ELSE /\ oreq' = [oreq EXCEPT ![r] = ODone([q EXCEPT !.args = args], 500)]
               /\ UNCHANGED <<orders, nextOrderId>>
  /\ UNCHANGED <<products, carts, nextCartId, cartLocks, creq, db0>>

(* ------------------------- reconciliation ------------------------------ *)
EventTypes == {"checkout.session.completed", "payment_intent.payment_failed", "other"}

CaptureOutcomes == {"COMPLETED", "PENDING", "ERROR"}

RECURSIVE DecrementStock(_, _)
\* for (const item of order.items) Product.findByIdAndUpdate(item.productId, {$inc: {stock: -item.quantity}})
DecrementStock(prods, items) ==
  IF items = <<>> THEN prods
  ELSE LET it == Head(items)
           next == IF it.productId \in ProductIds /\ prods[it.productId].exists
                   THEN [prods EXCEPT ![it.productId].stock = prods[it.productId].stock - it.quantity]
                   ELSE prods
       IN DecrementStock(next, Tail(items))

\* order.customerId: customerId is not a path of the schema, the property is undefined.
OrderCustomerId(o) == IF HasPath("customerId") THEN "u1" ELSE None

\* Cart.findOneAndUpdate({userId}, {$set: {items: []}})
ClearCartOf(cs, u) == IF u = None \/ FindOne(cs, u) = 0 THEN cs ELSE [cs EXCEPT ![FindOne(cs, u)].items = <<>>]

\* The assignments both handlers make before order.save(); order.status is
\* not a path of the schema and is not stored.
MarkPaid(o, ref) == [o EXCEPT !.paymentStatus = "paid", !.paid = TRUE, !.paymentRef = ref, !.orderStatus = IF HasPath("status") THEN "processing" ELSE o.orderStatus]

\* The signature test skipped.
SignatureIgnored(ok) == FALSE

\* try { event = stripe.webhooks.constructEvent(...) } catch (err) { return res.status(400)... }
SignatureRejected(ok) == ~ok

\* stripe.webhooks.constructEvent and the switch on event.type.
WebhookBegin(r) ==
  /\ OCanBegin(r)
  /\ \E ok \in BOOLEAN, t \in EventTypes, o \in OrderIds :
       LET q == [IdleOReq EXCEPT !.kind = "webhook", !.sigOk = ok, !.etype = t, !.oid = o] IN
       IF SignatureRejected(ok) THEN oreq' = [oreq EXCEPT ![r] = ODone(q, 400)]
       ELSE IF t # "checkout.session.completed" THEN oreq' = [oreq EXCEPT ![r] = ODone(q, 200)]
       ELSE oreq' = [oreq EXCEPT ![r] = [q EXCEPT !.pc = "findOrder"]]
  /\ UNCHANGED <<products, carts, nextCartId, cartLocks, creq, orders, nextOrderId, db0>>

\* Order.findById(session.metadata.orderId); if (order) { ... }
WebhookFind(r) ==
  /\ oreq[r].kind = "webhook" /\ oreq[r].pc = "findOrder"
  /\ IF orders[oreq[r].oid].exists
     THEN oreq' = [oreq EXCEPT ![r].pc = "saveOrder"]
     ELSE oreq' = [oreq EXCEPT ![r] = ODone(oreq[r], 200)]
  /\ UNCHANGED <<products, carts, nextCartId, cartLocks, creq, orders, nextOrderId, db0>>

\* Lines 2139-2165.  The handler has no try block: a rejected save leaves the
\* request without the answer {received: true}.
WebhookSave(r) ==
  /\ oreq[r].kind = "webhook" /\ oreq[r].pc = "saveOrder"
  /\ LET q == oreq[r]
         o == orders[q.oid]
         paidDoc == MarkPaid(o, "stripe")
     IN IF o.exists /\ ValidateOrder(paidDoc)
        THEN /\ orders' = [orders EXCEPT ![q.oid] = paidDoc]
             /\ products' = DecrementStock(products, o.items)
             /\ carts' = ClearCartOf(carts, OrderCustomerId(o))
             /\ oreq' = [oreq EXCEPT ![r] = ODone(q, IF EmailsThrow THEN 500 ELSE 200)]
        ELSE /\ oreq' = [oreq EXCEPT ![r] = ODone(q, 500)]
             /\ UNCHANGED <<orders, products, carts>>
  /\ UNCHANGED <<nextCartId, cartLocks, creq, nextOrderId, db0>>

\* GET /payment/paypal-success: the capture call and its three outcomes.
WalletBegin(r) ==
  /\ OCanBegin(r)
  /\ \E o \in OrderIds :
       oreq' = [oreq EXCEPT ![r] = [IdleOReq EXCEPT !.kind = "wallet", !.oid = o, !.pc = "capture"]]
  /\ UNCHANGED <<products, carts, nextCartId, cartLocks, creq, orders, nextOrderId, db0>>

\* Every capture that did not throw taken as completed.
CaptureNotThrown(outcome) == outcome # "ERROR"

\* capture.result.status === 'COMPLETED'
CaptureCompleted(outcome) == outcome = "COMPLETED"

WalletCapture(r) ==
  /\ oreq[r].kind = "wallet" /\ oreq[r].pc = "capture"
  /\ \E outcome \in CaptureOutcomes :
       LET q == [oreq[r] EXCEPT !.etype = outcome] IN
       IF outcome = "ERROR" THEN oreq' = [oreq EXCEPT ![r] = [ODone(q, 302) EXCEPT !.dest = "error"]]
       ELSE IF ~CaptureCompleted(outcome) THEN oreq' = [oreq EXCEPT ![r] = [ODone(q, 302) EXCEPT !.dest = "failed"]]
       ELSE oreq' = [oreq EXCEPT ![r] = [q EXCEPT !.pc = "findOrder"]]
  /\ UNCHANGED <<products, carts, nextCartId, cartLocks, creq, orders, nextOrderId, db0>>

WalletFind(r) ==
  /\ oreq[r].kind = "wallet" /\ oreq[r].pc = "findOrder"
  /\ IF orders[oreq[r].oid].exists
     THEN oreq' = [oreq EXCEPT ![r].pc = "saveOrder"]
     ELSE oreq' = [oreq EXCEPT ![r] = [ODone(oreq[r], 302) EXCEPT !.dest = "success"]]
  /\ UNCHANGED <<products, carts, nextCartId, cartLocks, creq, orders, nextOrderId, db0>>

\* Lines 2203-2240: a rejected save is caught and redirects to payment_error.
WalletSave(r) ==
  /\ oreq[r].kind = "wallet" /\ oreq[r].pc = "saveOrder"
  /\ LET q == oreq[r]
         o == orders[q.oid]
         paidDoc == MarkPaid(o, "paypal")
     IN IF o.exists /\ ValidateOrder(paidDoc)
        THEN /\ orders' = [orders EXCEPT ![q.oid] = paidDoc]
             /\ products' = DecrementStock(products, o.items)
             /\ carts' = ClearCartOf(carts, OrderCustomerId(o))
             /\ oreq' = [oreq EXCEPT ![r] = [ODone(q, 302) EXCEPT !.dest = IF EmailsThrow THEN "error" ELSE "success"]]
        ELSE /\ oreq' = [oreq EXCEPT ![r] = [ODone(q, 302) EXCEPT !.dest = "error"]]
             /\ UNCHANGED <<orders, products, carts>>
  /\ UNCHANGED <<nextCartId, cartLocks, creq, nextOrderId, db0>>

(* ------------------------------ the catalog ---------------------------- *)
NewPrice == 3

\* The bodies of PUT and PATCH /products/:id: a new price, a stock of zero,
\* a deactivation, or a new name.
ProductUpdates == {[NoUpdate EXCEPT !.keys = {"price"}, !.price = NewPrice], [NoUpdate EXCEPT !.keys = {"stock"}], [NoUpdate EXCEPT !.keys = {"isActive"}], [NoUpdate EXCEPT !.keys = {"name"}]}

\* const allowedUpdates = ['isActive', 'stock', 'price']
AllowedUpdates == {"isActive", "stock", "price"}

\* product[key] = body[key] for the keys of the body; name is not followed.
ApplyProductUpdate(prod, u) == [prod EXCEPT !.price = IF "price" \in u.keys THEN u.price ELSE @, !.stock = IF "stock" \in u.keys THEN u.stock ELSE @, !.isActive = IF "isActive" \in u.keys THEN u.isActive ELSE @]

\* Product.findById and what precedes product.save(), for PUT (every key is
\* taken) and for PATCH (only the allowed keys).
ProductBeginWith(r, kind) ==
  /\ OCanBegin(r)
  /\ \E p \in ProductIds, u \in ProductUpdates :
       LET q == [IdleOReq EXCEPT !.kind = kind, !.pid = p, !.upd = u] IN
       IF ~products[p].exists THEN oreq' = [oreq EXCEPT ![r] = ODone(q, 404)]
       ELSE IF kind = "patch" /\ ~(u.keys \subseteq AllowedUpdates) THEN oreq' = [oreq EXCEPT ![r] = ODone(q, 400)]
       ELSE oreq' = [oreq EXCEPT ![r] = [q EXCEPT !.pc = "saveProduct"]]
  /\ UNCHANGED <<products, carts, nextCartId, cartLocks, creq, orders, nextOrderId, db0>>

ProductPut(r) == ProductBeginWith(r, "put")

ProductPatch(r) == ProductBeginWith(r, "patch")

\* The save that also rewrites the unit price of the stored order lines of
\* the product.
ProductSaveRepricing(r) ==
  /\ oreq[r].kind \in {"put", "patch"} /\ oreq[r].pc = "saveProduct"
  /\ LET q == oreq[r] IN
       IF products[q.pid].exists
       THEN /\ products' = [products EXCEPT ![q.pid] = ApplyProductUpdate(products[q.pid], q.upd)]
            /\ orders' = [o \in OrderIds |-> [orders[o] EXCEPT !.items = [i \in 1..Len(orders[o].items) |-> IF orders[o].items[i].productId = q.pid THEN [orders[o].items[i] EXCEPT !.price = products'[q.pid].price] ELSE orders[o].items[i]]]]
            /\ oreq' = [oreq EXCEPT ![r] = ODone(q, 200)]
       ELSE /\ oreq' = [oreq EXCEPT ![r] = ODone(q, 500)]
            /\ UNCHANGED <<products, orders>>
  /\ UNCHANGED <<carts, nextCartId, cartLocks, creq, nextOrderId, db0>>

\* await product.save(): $set of the modified paths on the stored product;
\* the save of a product deleted since it was read throws.
ProductSave(r) ==
  /\ oreq[r].kind \in {"put", "patch"} /\ oreq[r].pc = "saveProduct"
  /\ LET q == oreq[r] IN
       IF products[q.pid].exists
       THEN /\ products' = [products EXCEPT ![q.pid] = ApplyProductUpdate(products[q.pid], q.upd)]
            /\ oreq' = [oreq EXCEPT ![r] = ODone(q, 200)]
       ELSE /\ oreq' = [oreq EXCEPT ![r] = ODone(q, 500)]
            /\ UNCHANGED products
  /\ UNCHANGED <<carts, nextCartId, cartLocks, creq, orders, nextOrderId, db0>>

\* DELETE /products/:id up to Product.findByIdAndDelete.
ProductDeleteBegin(r) ==
  /\ OCanBegin(r)
  /\ \E p \in ProductIds :
       LET q == [IdleOReq EXCEPT !.kind = "deleteProduct", !.pid = p] IN
       IF ~products[p].exists THEN oreq' = [oreq EXCEPT ![r] = ODone(q, 404)]
       ELSE oreq' = [oreq EXCEPT ![r] = [q EXCEPT !.pc = "deleteProduct"]]
  /\ UNCHANGED <<products, carts, nextCartId, cartLocks, creq, orders, nextOrderId, db0>>

\* Product.findByIdAndDelete(req.params.id)
ProductDelete(r) ==
  /\ oreq[r].kind = "deleteProduct" /\ oreq[r].pc = "deleteProduct"
  /\ products' = [products EXCEPT ![oreq[r].pid] = [exists |-> FALSE, isActive |-> FALSE, stock |-> 0, price |-> 0]]
  /\ oreq' = [oreq EXCEPT ![r] = ODone(oreq[r], 200)]
  /\ UNCHANGED <<carts, nextCartId, cartLocks, creq, orders, nextOrderId, db0>>

(* --------------------------- PUT /orders/:id --------------------------- *)
\* The paymentStatus values of a request body; None is a body without one.
BodyPaymentStatuses == {None, "paid", "unpaid", "refunded"}

\* updateData under strict mode: status and trackingNumber are not paths of
\* the schema and are dropped; paymentStatus is kept when the body has one.
\* findByIdAndUpdate runs no validator, so the value need not be in the enum.
ApplyUpdateData(o, ps) == IF ps = None THEN o ELSE [o EXCEPT !.paymentStatus = ps]

\* Order.findByIdAndUpdate(req.params.id, updateData, { new: true })
OrderUpdate(r) ==
  /\ OCanBegin(r)
  /\ \E o \in OrderIds, ps \in BodyPaymentStatuses :
       LET q == [IdleOReq EXCEPT !.kind = "orderUpdate", !.oid = o] IN
       IF orders[o].exists
       THEN /\ orders' = [orders EXCEPT ![o] = ApplyUpdateData(orders[o], ps)]
            /\ oreq' = [oreq EXCEPT ![r] = ODone(q, 200)]
       ELSE /\ oreq' = [oreq EXCEPT ![r] = ODone(q, 404)]
            /\ UNCHANGED orders
  /\ UNCHANGED <<products, carts, nextCartId, cartLocks, creq, nextOrderId, db0>>

(* --------------------------- specification ----------------------------- *)
Product(st, act, pr) == [exists |-> TRUE, isActive |-> act, stock |-> st, price |-> pr]

NoProduct == [exists |-> FALSE, isActive |-> FALSE, stock |-> 0, price |-> 0]

\* The catalog at start-up: p1 is active, p2 is active, inactive or deleted.
InitProducts == {[p \in ProductIds |-> IF p = "p1" THEN Product(s1, TRUE, 1) ELSE second] : s1 \in 0..MaxStock, second \in {NoProduct, Product(1, FALSE, 2), Product(1, TRUE, 2)}}

InitItems == {<<>>, <<Item("p1", 1)>>, <<Item("p1", 1), Item("p2", 1)>>}

InitCartChoices == {[present |-> FALSE, items |-> <<>>]} \cup {[present |-> TRUE, items |-> its] : its \in InitItems}

\* For each identity no cart or one cart.
InitCarts(uc, gc) ==
  LET first == IF ~uc.present THEN <<>> ELSE <<CartRec("u1", None, uc.items, 0)>>
      second == IF ~gc.present THEN <<>> ELSE <<CartRec(None, "s1", gc.items, 0)>>
      both == first \o second
  IN [i \in CartIds |-> IF i <= Len(both) THEN both[i] ELSE NoCart]

NumCarts(cs) == Cardinality({i \in CartIds : cs[i].exists})

\* An order document already in the collection, with every path the schema requires.
RECURSIVE ItemsTotal(_)
\* The sum of price times quantity over stored line items.
ItemsTotal(items) == IF items = <<>> THEN 0 ELSE Head(items).price * Head(items).quantity + ItemsTotal(Tail(items))

StoredOrder(items, method) == [NoOrder EXCEPT !.exists = TRUE, !.paths = OrderSchemaPaths, !.addrKeys = AddressSchemaKeys, !.items = items, !.paymentStatus = "pending", !.paymentMethod = method, !.orderStatus = "pending", !.sessionRef = method, !.total = ItemsTotal(items)]

InitOrderItems == {<<OrderItem("p1", 1, 1)>>, <<OrderItem("p1", 2, 1)>>, <<OrderItem("p1", 1, 1), OrderItem("p2", 1, 2)>>}

InitOrders == {[i \in OrderIds |-> NoOrder]} \cup {[i \in OrderIds |-> IF i = 1 THEN StoredOrder(its, "stripe") ELSE NoOrder] : its \in InitOrderItems} \cup {[i \in OrderIds |-> IF i = 1 THEN StoredOrder(<<OrderItem("p1", 1, 1)>>, "paypal") ELSE NoOrder]}

NumOrders(os) == Cardinality({i \in OrderIds : os[i].exists})

InitRequests ==
  /\ cartLocks = {}
  /\ creq = [r \in CReq |-> IdleReq]
  /\ oreq = [r \in OReq |-> IdleOReq]
  /\ db0 = [products |-> products, carts |-> carts, orders |-> orders]

\* Start-up of the cart specifications: any catalog, any carts, no orders.
Init ==
  /\ products \in InitProducts
  /\ \E uc \in InitCartChoices, gc \in InitCartChoices :
       /\ carts = InitCarts(uc, gc)
       /\ nextCartId = NumCarts(InitCarts(uc, gc)) + 1
  /\ orders = [i \in OrderIds |-> NoOrder]
  /\ nextOrderId = 1
  /\ InitRequests

\* Start-up of the order specifications: any catalog, any stored order, one user cart.
InitOrderWorld ==
  /\ products \in InitProducts
  /\ carts = InitCarts([present |-> TRUE, items |-> <<Item("p1", 1)>>], [present |-> FALSE, items |-> <<>>])
  /\ nextCartId = 2
  /\ orders \in InitOrders
  /\ nextOrderId = NumOrders(orders) + 1
  /\ InitRequests

Next ==
  \E r \in 1..NPair :
    \/ AddBegin(r) \/ AddAcquire(r) \/ AddTimeout(r)
    \/ AddFindProduct(r) \/ AddFindCart(r) \/ AddSave(r) \/ AddPopulate(r)
    \/ UpdateBegin(r) \/ UpdateFindCart(r) \/ UpdateFindProduct(r) \/ UpdateSave(r)
    \/ CartRemove(r)
    \/ ClearBegin(r) \/ ClearFindCart(r) \/ ClearSave(r)
    \/ MergeBegin(r) \/ MergeFindGuest(r) \/ MergeFindUser(r) \/ MergeSave(r) \/ MergeDelete(r)

\* Every kind of cart request, NPair of them in flight.
Spec == Init /\ [][Next]_vars

\* Add requests alone, NReq of them in flight, all for product p1.
GateAddBegin(r) == AddBeginWith(r, Idents, {"p1"}, 1..MaxQty)

NextGate ==
  \E r \in CReq :
    \/ GateAddBegin(r) \/ AddAcquire(r) \/ AddTimeout(r)
    \/ AddFindProduct(r) \/ AddFindCart(r) \/ AddSave(r) \/ AddPopulate(r)

SpecGate == Init /\ [][NextGate]_vars

\* Cart requests one after the other: a request begins when none is in flight.
Quiet == \A r \in CReq : creq[r].pc \in {"idle", "done"}

SeqAddBegin(r) == Quiet /\ AddBegin(r)

SeqUpdateBegin(r) == Quiet /\ UpdateBegin(r)

SeqCartRemove(r) == Quiet /\ CartRemove(r)

SeqClearBegin(r) == Quiet /\ ClearBegin(r)

SeqMergeBegin(r) == Quiet /\ MergeBegin(r)

NextSeq ==
  \E r \in 1..NPair :
    \/ SeqAddBegin(r) \/ AddFindProduct(r) \/ AddFindCart(r) \/ AddSave(r) \/ AddPopulate(r)
    \/ SeqUpdateBegin(r) \/ UpdateFindCart(r) \/ UpdateFindProduct(r) \/ UpdateSave(r)
    \/ SeqCartRemove(r)
    \/ SeqClearBegin(r) \/ ClearFindCart(r) \/ ClearSave(r)
    \/ SeqMergeBegin(r) \/ MergeFindGuest(r) \/ MergeFindUser(r) \/ MergeSave(r) \/ MergeDelete(r)

SpecSeq == Init /\ [][NextSeq]_vars

\* Order placement and both reconciliation handlers, NOrd requests in flight.
NextOrders ==
  \E r \in OReq :
    \/ OrderBegin(r) \/ PayBegin(r) \/ PlaceFindProduct(r) \/ OrderSaveProduct(r)
    \/ OrderSaveOrder(r) \/ PaySaveOrder(r)
    \/ WebhookBegin(r) \/ WebhookFind(r) \/ WebhookSave(r)
    \/ WalletBegin(r) \/ WalletCapture(r) \/ WalletFind(r) \/ WalletSave(r)

SpecOrders == InitOrderWorld /\ [][NextOrders]_vars

\* Order updates together with both reconciliation handlers.
NextAdmin ==
  \E r \in OReq :
    \/ OrderUpdate(r)
    \/ WebhookBegin(r) \/ WebhookFind(r) \/ WebhookSave(r)
    \/ WalletBegin(r) \/ WalletCapture(r) \/ WalletFind(r) \/ WalletSave(r)

SpecAdmin == InitOrderWorld /\ [][NextAdmin]_vars

\* Catalog changes together with the operations on stored orders.
NextCatalog ==
  \E r \in OReq :
    \/ ProductPut(r) \/ ProductPatch(r) \/ ProductSave(r)
    \/ ProductDeleteBegin(r) \/ ProductDelete(r)
    \/ OrderUpdate(r)
    \/ WebhookBegin(r) \/ WebhookFind(r) \/ WebhookSave(r)
    \/ WalletBegin(r) \/ WalletCapture(r) \/ WalletFind(r) \/ WalletSave(r)

SpecCatalog == InitOrderWorld /\ [][NextCatalog]_vars

\* Deliveries of the card processor's webhook alone.
NextWebhook == \E r \in OReq : WebhookBegin(r) \/ WebhookFind(r) \/ WebhookSave(r)

SpecWebhook == InitOrderWorld /\ [][NextWebhook]_vars

\* Redirects of the wallet processor alone.
NextWallet == \E r \in OReq : WalletBegin(r) \/ WalletCapture(r) \/ WalletFind(r) \/ WalletSave(r)

SpecWallet == InitOrderWorld /\ [][NextWallet]_vars

(* ---------------------- reconciliation properties ---------------------- *)
\* A finished delivery of a signature-valid checkout.session.completed event for order o.
Delivered(q, o) == q.kind = "webhook" /\ q.pc = "done" /\ q.sigOk /\ q.etype = "checkout.session.completed" /\ q.oid = o

\* A finished wallet redirect for order o whose capture returned COMPLETED.
Captured(q, o) == q.kind = "wallet" /\ q.pc = "done" /\ q.etype = "COMPLETED" /\ q.oid = o

\* C1: once one or more signature-valid checkout-completed deliveries for a
\* stored order have finished, the order is paid and every ordered product's
\* stock is the start-up stock less the order's quantity, taken exactly once.
C1_DecrementedOnce ==
  \A o \in OrderIds :
    (db0.orders[o].exists /\ \E r \in OReq : Delivered(oreq[r], o))
      => /\ orders[o].paid
         /\ products = DecrementStock(db0.products, db0.orders[o].items)

\* C2: once one or more wallet redirects with a COMPLETED capture for a
\* stored order have finished, the order is paid and its items have been
\* taken from the start-up stock exactly once.
C2_AppliedOnce ==
  \A o \in OrderIds :
    (db0.orders[o].exists /\ \E r \in OReq : Captured(oreq[r], o))
      => /\ orders[o].paid
         /\ products = DecrementStock(db0.products, db0.orders[o].items)

(* --------------------------- gate properties --------------------------- *)
\* C3: for every identity key at most one POST /cart/add request is between
\* its successful acquireLock and its releaseLock.
C3_MutualExclusion ==
  \A k \in Idents : Cardinality({r \in CReq : Holding(creq[r]) /\ creq[r].ident = k}) <= 1

RECURSIVE AddedUpTo(_, _, _)
\* The quantities of the adds of identity k for product p, among slots 1..n,
\* that answered with success.
AddedUpTo(k, p, n) ==
  IF n = 0 THEN 0
  ELSE (IF creq[n].kind = "add" /\ creq[n].pc = "done" /\ creq[n].status = 200 /\ creq[n].ident = k /\ creq[n].pid = p THEN creq[n].qty ELSE 0) + AddedUpTo(k, p, n - 1)

CartItems(cs, k) == IF FindOne(cs, k) = 0 THEN <<>> ELSE cs[FindOne(cs, k)].items

AddsAtRest(k) == \A r \in CReq : creq[r].ident = k => creq[r].pc = "done"

\* C4: when the adds of an identity have all answered, the persisted line
\* quantity of p1 is the prior quantity plus the quantities of every add
\* that answered with success.
C4_NoLostUpdate ==
  \A k \in Idents :
    AddsAtRest(k) => QtyOf(CartItems(carts, k), "p1") = QtyOf(CartItems(db0.carts, k), "p1") + AddedUpTo(k, "p1", NReq)

\* A request that has read a cart document and has not yet written it back.
Pending(q) == q.pc \in {"save", "findProduct"} /\ q.doc.id # 0

\* C5: no update, clear or merge holds a copy of a cart pending its write
\* while another mutating request holds a copy of the same cart.
C5_Serialized ==
  \A r1, r2 \in CReq :
    (r1 # r2 /\ Pending(creq[r1]) /\ Pending(creq[r2]) /\ creq[r1].doc.id = creq[r2].doc.id)
      => (creq[r1].kind = "add" /\ creq[r2].kind = "add")

\* C7: no persisted cart has two line items of the same product.
C7_NoDuplicateLines == \A i \in CartIds : NoDuplicateProducts(carts[i].items)

(* ---------------------------- add and stock ---------------------------- *)
\* The outcome the rule gives an add that brings the line to n under stock
\* s: accepted when n <= s and, with floor, when n >= 1 as well.
Accepts(n, s, floor) == n <= s /\ (floor => n >= 1)

\* One step of the add request in slot r for an existing active product,
\* with p the persisted quantity of the line and s the stock before the step:
\* a step that rejects the request leaves the carts alone and is taken only
\* when the rule does not accept p + q; the step whose save succeeds is taken
\* only when the rule accepts p + q and leaves the line at p + q.
AddStepRule(r, floor) ==
  LET q == creq[r]
      p == QtyOf(CartItems(carts, q.ident), q.pid)
      s == products[q.pid].stock
      before == q.kind = "add" /\ q.pc \in {"findProduct", "findCart", "save"}
      rejected == creq'[r].pc = "done"
      saved == q.pc = "save" /\ creq'[r].pc = "populate"
  IN (before /\ q.pid \in ProductIds /\ products[q.pid].exists /\ products[q.pid].isActive)
       => /\ rejected => (carts' = carts /\ ~Accepts(p + q.qty, s, floor))
          /\ saved => (Accepts(p + q.qty, s, floor) /\ QtyOf(CartItems(carts', q.ident), q.pid) = p + q.qty)

\* C6 as stated: an add of q to a line of p under stock s succeeds and
\* leaves the line at p + q if and only if p + q <= s, and is otherwise
\* rejected with the persisted cart unchanged.
C6_AcceptsIffWithinStock == [][\A r \in 1..NPair : AddStepRule(r, FALSE)]_vars

\* C6 amended: the add succeeds and leaves the line at p + q if and only if
\* 1 <= p + q <= s, and is otherwise rejected with the persisted cart unchanged.
C6_AcceptsIffPositiveWithinStock == [][\A r \in 1..NPair : AddStepRule(r, TRUE)]_vars

\* An add that raised an existing line to the stock answered with success,
\* and an add for the active product p1 was answered with a rejection.
C6_Witness ==
  /\ \E r \in 1..NPair : creq[r].kind = "add" /\ creq[r].pc = "done" /\ creq[r].status = 200 /\ creq[r].pid = "p1" /\ QtyOf(CartItems(carts, creq[r].ident), "p1") = products["p1"].stock /\ QtyOf(CartItems(db0.carts, creq[r].ident), "p1") = 1
  /\ \E r \in 1..NPair : creq[r].kind = "add" /\ creq[r].pc = "done" /\ creq[r].status = 400 /\ creq[r].pid = "p1" /\ creq[r].qty >= 1

\* C8: every product's stock is at least 0.
C8_StockNonNegative == \A p \in ProductIds : products[p].stock >= 0

\* POST /orders has taken the last units of p1, and a reconciliation request
\* for a stored order has run to its save.
C8_Witness ==
  /\ products["p1"].stock = 0 /\ db0.products["p1"].stock = MaxStock
  /\ \E r \in OReq : oreq[r].kind \in {"webhook", "wallet"} /\ oreq[r].pc = "done" /\ orders[oreq[r].oid].exists /\ (oreq[r].sigOk \/ oreq[r].etype = "COMPLETED")

\* A finished placement request that built an order document.
Built(q) == q.kind \in {"order", "pay"} /\ q.pc = "done" /\ q.args.keys # {}

C10_PaymentLeavesStock ==
  [][/\ \A r \in OReq : ((oreq[r].kind = "pay" \/ oreq'[r].kind = "pay") /\ oreq'[r] # oreq[r]) => products' = products
     /\ products' # products => \E r \in OReq : oreq[r].kind \in {"order", "webhook", "wallet"} /\ oreq'[r] # oreq[r]]_vars

\* A create-payment request has run to its save and answered, while the
\* stock of p1 was changed by another request.
C10_Witness ==
  /\ \E r \in OReq : oreq[r].kind = "pay" /\ Built(oreq[r])
  /\ products["p1"].stock < db0.products["p1"].stock

(* --------------------- reconciliation, first delivery ------------------ *)
\* The step in which the reconciliation request in slot r finishes after its
\* order.save(), for a stored order that is not paid.
FirstSaveStep(r) ==
  /\ oreq[r].kind \in {"webhook", "wallet"} /\ oreq[r].pc = "saveOrder" /\ oreq'[r].pc = "done"
  /\ orders[oreq[r].oid].exists /\ ~orders[oreq[r].oid].paid

\* C11: the first checkout-completed webhook or COMPLETED capture for a
\* stored unpaid order leaves the order with payment-status paid, order-status
\* processing, the paid timestamp and the processor's identifier, and takes
\* every item's quantity from the stock of its product.
C11_FirstReconciliationApplies ==
  [][\A r \in OReq : FirstSaveStep(r) =>
        LET o == oreq[r].oid IN
        /\ orders'[o].paymentStatus = "paid" /\ orders'[o].orderStatus = "processing"
        /\ orders'[o].paid /\ orders'[o].paymentRef # None
        /\ products' = DecrementStock(products, orders[o].items)]_vars

\* C12: once a confirmed payment of a stored order has been reconciled (a
\* checkout-completed delivery or a COMPLETED capture has finished), the cart
\* of the identity that placed the order has no items.
C12_CartClearedAfterPayment ==
  \A o \in OrderIds :
    (db0.orders[o].exists /\ \E r \in OReq : Delivered(oreq[r], o) \/ Captured(oreq[r], o))
      => \A k \in Idents : CartItems(carts, k) = <<>>

(* ------------------------ reconciliation failures ---------------------- *)
\* C13: a webhook whose signature verification fails is answered with 400
\* in its first step and changes no order, product or cart.
C13_BadSignatureRejected ==
  [][\A r \in OReq : (oreq[r].kind = "idle" /\ oreq'[r].kind = "webhook" /\ ~oreq'[r].sigOk)
        => /\ oreq'[r].pc = "done" /\ oreq'[r].status = 400
           /\ orders' = orders /\ products' = products /\ carts' = carts]_vars

\* A webhook with a bad signature that named a stored order has been answered.
C13_Witness ==
  \E r \in OReq : oreq[r].kind = "webhook" /\ oreq[r].pc = "done" /\ ~oreq[r].sigOk /\ oreq[r].status = 400 /\ orders[oreq[r].oid].exists

\* C14: when the capture returns a status other than COMPLETED, or throws,
\* the redirect goes to a failure destination in that step and no order,
\* product or cart changes.
C14_FailedCaptureLeavesState ==
  [][\A r \in OReq : (oreq[r].kind = "wallet" /\ oreq[r].pc = "capture" /\ oreq'[r].etype \in CaptureOutcomes \ {"COMPLETED"})
        => /\ oreq'[r].pc = "done" /\ oreq'[r].status = 302 /\ oreq'[r].dest \in {"failed", "error"}
           /\ orders' = orders /\ products' = products /\ carts' = carts]_vars

\* Two redirects for a stored order have finished, one whose capture was
\* pending and one whose capture threw.
C14_Witness ==
  /\ \E r \in OReq : oreq[r].kind = "wallet" /\ oreq[r].pc = "done" /\ oreq[r].etype = "PENDING" /\ oreq[r].dest = "failed" /\ orders[oreq[r].oid].exists
  /\ \E r \in OReq : oreq[r].kind = "wallet" /\ oreq[r].pc = "done" /\ oreq[r].etype = "ERROR" /\ oreq[r].dest = "error"

(* ---------------------- create-payment, after the save ----------------- *)
\* The order of the finished create-payment request q is stored, pending and
\* unpaid.
PersistedUnpaid(q) ==
  /\ q.oid \in OrderIds /\ orders[q.oid].exists
  /\ orders[q.oid].orderStatus = "pending" /\ orders[q.oid].paymentStatus = "unpaid"

C16_UnsupportedMethodRejected ==
  \A r \in OReq :
    (oreq[r].kind = "pay" /\ Built(oreq[r]) /\ oreq[r].args.paymentMethod \notin {"stripe", "paypal"})
      => (oreq[r].status = 400 /\ PersistedUnpaid(oreq[r]))

(* --------------------------- update and remove ------------------------- *)
\* C17: the save of PUT /cart/update with quantity 0 leaves the collection
\* as DELETE /cart/remove of the same product by the same identity would
\* leave it from the same state.
C17_UpdateZeroIsRemove ==
  [][\A r \in 1..NPair : (creq[r].kind = "update" /\ creq[r].qty = 0 /\ creq[r].pc = "save")
        => carts' = RemoveOutcome(carts, creq[r].ident, creq[r].pid)]_vars

\* C20: a DELETE /cart/remove by an identity that has a cart is answered
\* with success and leaves the cart without the product, every other line
\* unchanged, whether or not the product was in the cart.
C20_RemoveSucceeds ==
  [][\A r \in 1..NPair : (creq'[r].kind = "remove" /\ creq'[r].pc = "done" /\ creq[r].pc # "done" /\ FindOne(carts, creq'[r].ident) # 0)
        => /\ creq'[r].status = 200
           /\ CartItems(carts', creq'[r].ident) = FilterOut(CartItems(carts, creq'[r].ident), creq'[r].pid)]_vars

(* -------------------------------- merge -------------------------------- *)
\* A step of the merge request in slot r taken while the user of the request
\* has a cart and its guest session has a cart with items.
MergingBoth(r) ==
  /\ creq[r].kind = "merge"
  /\ FindOne(carts, creq[r].ident) # 0 /\ FindOne(carts, creq[r].guest) # 0
  /\ CartItems(carts, creq[r].guest) # <<>>

\* C18: with a user cart and a non-empty guest cart, the merge goes on to
\* its save, the save leaves the user cart with, for every product, the user
\* quantity plus the guest quantity (no stock test), and the step after it
\* deletes the guest cart and answers with success.
C18_MergeSumsQuantities ==
  [][\A r \in 1..NPair : MergingBoth(r) =>
        LET u == creq[r].ident
            g == creq[r].guest
        IN /\ creq[r].pc = "findUser" => creq'[r].pc = "save"
           /\ creq[r].pc = "save" =>
                /\ creq'[r].pc = "delete"
                /\ \A p \in ProductIds : QtyOf(CartItems(carts', u), p) = QtyOf(CartItems(carts, u), p) + QtyOf(CartItems(carts, g), p)
                /\ NoDuplicateProducts(CartItems(carts', u))
           /\ creq[r].pc = "delete" =>
                /\ FindOne(carts', g) = 0 /\ CartItems(carts', u) = CartItems(carts, u)
                /\ creq'[r].pc = "done" /\ creq'[r].status = 200]_vars

\* A merge of guest [p1 x 1, p2 x 1] into user [p1 x 1] has finished: the
\* user cart is [p1 x 2, p2 x 1], above the stock of p1, and the guest cart
\* is gone.
C18_Witness ==
  /\ \E r \in 1..NPair : creq[r].kind = "merge" /\ creq[r].pc = "done" /\ creq[r].status = 200
  /\ CartItems(db0.carts, "u1") = <<Item("p1", 1)>> /\ CartItems(db0.carts, "s1") = <<Item("p1", 1), Item("p2", 1)>>
  /\ CartItems(carts, "u1") = <<Item("p1", 2), Item("p2", 1)>> /\ FindOne(carts, "s1") = 0
  /\ products["p1"].stock < 2

\* A step of the merge request in slot r taken while its guest session has
\* a cart with items and the user of the request has no cart.
MergingGuestOnly(r) ==
  /\ creq[r].kind = "merge"
  /\ FindOne(carts, creq[r].ident) = 0 /\ FindOne(carts, creq[r].guest) # 0
  /\ CartItems(carts, creq[r].guest) # <<>>

\* C19: with a non-empty guest cart and no user cart, the merge goes on to
\* its save, and the save answers with success and leaves the guest's
\* document keyed by the user with the same items: no cart is keyed by the
\* guest session and exactly one cart is keyed by the user.
C19_MergeRekeysGuestCart ==
  [][\A r \in 1..NPair : MergingGuestOnly(r) =>
        LET u == creq[r].ident
            g == creq[r].guest
        IN /\ creq[r].pc = "findUser" => creq'[r].pc = "save"
           /\ creq[r].pc = "save" =>
                /\ creq'[r].pc = "done" /\ creq'[r].status = 200
                /\ FindOne(carts', g) = 0
                /\ FindOne(carts', u) = FindOne(carts, g)
                /\ Cardinality({i \in CartIds : Matches(carts'[i], u)}) = 1
                /\ CartItems(carts', u) = CartItems(carts, g)]_vars

\* A merge has finished with the guest's document [p1 x 1, p2 x 1] keyed by
\* the user, who had no cart at start-up.
C19_Witness ==
  /\ \E r \in 1..NPair : creq[r].kind = "merge" /\ creq[r].pc = "done" /\ creq[r].status = 200
  /\ FindOne(db0.carts, "u1") = 0 /\ CartItems(db0.carts, "s1") = <<Item("p1", 1), Item("p2", 1)>>
  /\ FindOne(carts, "s1") = 0 /\ FindOne(carts, "u1") = FindOne(db0.carts, "s1")
  /\ CartItems(carts, "u1") = <<Item("p1", 1), Item("p2", 1)>>

(* -------------------------------- clear -------------------------------- *)
\* C21: every DELETE /cart/clear, for an identity with a cart, with an
\* emptied cart or with no cart record, is answered with success and leaves
\* the identity without items.
C21_ClearSucceeds ==
  [][\A r \in 1..NPair : (creq[r].kind = "clear" /\ creq[r].pc # "done" /\ creq'[r].pc = "done")
        => (creq'[r].status = 200 /\ CartItems(carts', creq[r].ident) = <<>>)]_vars

(* ----------------------------- cart keys ------------------------------- *)
\* C22: every persisted cart has exactly one of userId and sessionId set.
C22_KeyedByOneIdentity ==
  \A i \in CartIds : carts[i].exists => ((carts[i].userId # None) # (carts[i].sessionId # None))

\* A merge has re-keyed the guest's document to the user, and a second cart
\* has been created by a request.
C22_Witness ==
  /\ FindOne(db0.carts, "s1") # 0 /\ FindOne(carts, "u1") = FindOne(db0.carts, "s1")
  /\ NumCarts(carts) > NumCarts(db0.carts)

\* C23: for every identity key there is at most one cart record.
C23_OneCartPerIdentity ==
  \A k \in Idents : Cardinality({i \in CartIds : Matches(carts[i], k)}) <= 1

(* ----------------------------- POST /orders ---------------------------- *)
\* C24: a POST /orders request whose lines all passed the product and
\* stock checks, and which built its order document, is answered with
\* success and has left that order stored with order-status pending and
\* payment-status unpaid.
C24_OrderPersistedPendingUnpaid ==
  \A r \in OReq :
    (oreq[r].kind = "order" /\ Built(oreq[r]))
      => (oreq[r].status = 200 /\ PersistedUnpaid(oreq[r]))

C26_TimeoutLeavesCart ==
  [][\A r \in CReq : (creq[r].kind = "add" /\ creq[r].pc = "waiting" /\ ~LockFree(cartLocks, creq[r].ident) /\ creq'[r] # creq[r])
        => /\ creq'[r].pc = "done" /\ creq'[r].status = 500
           /\ carts' = carts /\ nextCartId' = nextCartId]_vars

\* An add has answered 500 while another add of the same key is still
\* between its acquire and its release, and no cart record has changed since
\* start-up.
C26_Witness ==
  /\ carts = db0.carts
  /\ \E r \in CReq, s \in CReq :
       /\ r # s /\ creq[r].kind = "add" /\ creq[r].pc = "done" /\ creq[r].status = 500
       /\ Holding(creq[s]) /\ creq[s].ident = creq[r].ident

\* C27: every key in the lock map is the key of a POST /cart/add that is
\* between its acquire and its finally block; so when no add is in flight
\* the lock map is empty, and no finished request keeps a key held.
C27_ReleasedOnEveryExit ==
  \A k \in cartLocks : \E r \in CReq : Holding(creq[r]) /\ creq[r].ident = k

\* Two adds that acquired the lock have finished, one with success and one
\* with a rejection, and the lock map is empty.
C27_Witness ==
  /\ cartLocks = {}
  /\ \E r \in CReq, s \in CReq :
       /\ creq[r].kind = "add" /\ creq[r].pc = "done" /\ creq[r].status = 200
       /\ creq[s].kind = "add" /\ creq[s].pc = "done" /\ creq[s].status \in {400, 404}

(* ---------------------------- PUT /cart/update ------------------------- *)
\* The collection cs with the quantity of identity k's line of product p
\* set to n and nothing else changed.
LineSetTo(cs, k, p, n) ==
  [cs EXCEPT ![FindOne(cs, k)].items[FindIndex(CartItems(cs, k), p)].quantity = n]

\* C28: PUT /cart/update goes past its validation only with a quantity
\* that is a non-negative integer, and its first step changes no cart; for a
\* positive quantity on a line that exists, a quantity above the product's
\* stock is answered 400 with the carts unchanged, and the save answers
\* success, with a quantity within the stock, and leaves the collection as it
\* was except that the line's quantity is the requested one.
C28_UpdateOverwrites ==
  [][\A r \in 1..NPair :
       /\ (creq[r].kind = "idle" /\ creq'[r].kind = "update")
            => /\ carts' = carts
               /\ creq'[r].pc # "done" => (creq'[r].qty >= 0 /\ ~creq'[r].frac)
       /\ (creq[r].kind = "update" /\ creq[r].pc = "findProduct" /\ creq'[r] # creq[r]
             /\ products[creq[r].pid].exists /\ creq[r].qty > products[creq[r].pid].stock)
            => (creq'[r].pc = "done" /\ creq'[r].status = 400 /\ carts' = carts)
       /\ (creq[r].kind = "update" /\ creq[r].pc = "save" /\ creq[r].qty > 0 /\ creq'[r] # creq[r])
            => /\ creq'[r].status = 200
               /\ creq[r].qty <= products[creq[r].pid].stock
               /\ carts' = LineSetTo(carts, creq[r].ident, creq[r].pid, creq[r].qty)]_vars

\* An update alone has answered with success, and the user's cart, which
\* held one unit of p1 and one of p2, holds two of p1 and one of p2.
C28_Witness ==
  /\ creq[1].kind = "update" /\ creq[1].pc = "done" /\ creq[1].status = 200
  /\ creq[2].kind = "idle"
  /\ CartItems(db0.carts, "u1") = <<Item("p1", 1), Item("p2", 1)>>
  /\ CartItems(carts, "u1") = <<Item("p1", MaxQty), Item("p2", 1)>>

(* ------------------------ placement, rejections ------------------------ *)
\* The line a placement request is about to read, and its product.
CurrentLine(q) == q.lines[q.idx]

CurrentProduct(q) == products[CurrentLine(q).productId]

\* Some line of the request names a product that does not exist.
AnyLineMissing(q) == \E i \in 1..Len(q.lines) : ~products[q.lines[i].productId].exists

\* Some line of the request asks for more than the stock of its product.
AnyLineExceeds(q) ==
  \E i \in 1..Len(q.lines) :
    products[q.lines[i].productId].exists /\ q.lines[i].quantity > products[q.lines[i].productId].stock

\* C29 as stated: a POST /orders or create-payment request that ends in its
\* item loop is answered 404 if any of its lines names a missing product, and
\* 400 if any of its lines exceeds the stock of its product, and stores no
\* order.
C29_AnyFailingLineRejects ==
  [][\A r \in OReq : (oreq[r].kind \in {"order", "pay"} /\ oreq[r].pc = "findProduct" /\ oreq'[r].pc = "done")
        => /\ AnyLineMissing(oreq[r]) => oreq'[r].status = 404
           /\ AnyLineExceeds(oreq[r]) => oreq'[r].status = 400
           /\ orders' = orders /\ nextOrderId' = nextOrderId]_vars

\* C29, amended: in both entry points the item loop reads the lines in
\* request order, and the first line that names a missing product, or that
\* asks for more than the stock its product has when it is read, ends the
\* request in that step: with 404 for the missing product, with 400 for the
\* stock; the request stores no order.
C29_FirstFailingLineRejects ==
  [][\A r \in OReq : (oreq[r].kind \in {"order", "pay"} /\ oreq[r].pc = "findProduct" /\ oreq'[r] # oreq[r])
        => /\ ~CurrentProduct(oreq[r]).exists
                => (oreq'[r].pc = "done" /\ oreq'[r].status = 404)
           /\ (CurrentProduct(oreq[r]).exists /\ CurrentLine(oreq[r]).quantity > CurrentProduct(oreq[r]).stock)
                => (oreq'[r].pc = "done" /\ oreq'[r].status = 400)
           /\ oreq'[r].pc = "done" => (oreq'[r].oid = 0 /\ orders' = orders /\ nextOrderId' = nextOrderId)]_vars

\* A POST /orders request and a create-payment request have each been
\* answered 404 for a missing product, and the stored orders are those of
\* start-up.
C29_Witness ==
  /\ \E r \in OReq : oreq[r].kind = "order" /\ oreq[r].pc = "done" /\ oreq[r].status = 404
  /\ \E r \in OReq : oreq[r].kind = "pay" /\ oreq[r].pc = "done" /\ oreq[r].status = 404
  /\ orders = db0.orders

\* C30: the step in which POST /orders is rejected at a line after its
\* first (the earlier lines having been taken from the stock and saved)
\* answers 404 or 400, stores no order, and leaves every product as it is:
\* the earlier decrements are not put back.
C30_PartialDecrementKept ==
  [][\A r \in OReq : (oreq[r].kind = "order" /\ oreq[r].pc = "findProduct" /\ oreq[r].idx > 1 /\ oreq'[r].pc = "done")
        => /\ oreq'[r].status \in {404, 400}
           /\ products' = products
           /\ orders' = orders /\ nextOrderId' = nextOrderId]_vars

\* The only request so far was a POST /orders of two lines: it took one
\* unit of p1, was rejected at its second line, stored no order, and p1 has
\* one unit less than at start-up.
C30_Witness ==
  /\ oreq[1].kind = "order" /\ oreq[1].pc = "done" /\ oreq[1].status \in {404, 400}
  /\ \A r \in OReq \ {1} : oreq[r].kind = "idle"
  /\ products["p1"].stock = db0.products["p1"].stock - 1
  /\ orders = db0.orders

(* ------------------------- payment state of an order ------------------- *)
\* The step is one of a reconciliation handler.
ReconciliationStep == \E r \in OReq : oreq[r].kind \in {"webhook", "wallet"} /\ oreq'[r] # oreq[r]

\* C31: the payment status of a stored order changes only in a step of a
\* reconciliation handler, only to paid and only when it was not paid; and
\* no step changes a paid order's payment status, paid timestamp or items.
C31_PaidOnceByReconciliation ==
  [][\A o \in OrderIds :
       /\ (orders[o].exists /\ orders'[o].paymentStatus # orders[o].paymentStatus)
            => (ReconciliationStep /\ orders'[o].paymentStatus = "paid" /\ orders[o].paymentStatus # "paid")
       /\ (orders[o].exists /\ orders[o].paymentStatus = "paid")
            => (orders'[o].paymentStatus = "paid" /\ orders'[o].paid = orders[o].paid /\ orders'[o].items = orders[o].items)]_vars

\* The processor whose callback the reconciliation request q is.
ProcessorOf(q) == IF q.kind = "webhook" THEN "stripe" ELSE "paypal"

C33_MergeNothingIsNoOp ==
  [][\A r \in 1..NPair : (creq[r].kind = "merge" /\ creq'[r] # creq[r] /\ CartItems(carts, creq[r].guest) = <<>>)
        => (carts' = carts /\ nextCartId' = nextCartId)]_vars

(* --------------------------- order snapshot ---------------------------- *)
\* C34: no step, and in particular no change or deletion of a product,
\* changes the stored line items or the stored total of an order that exists.
C34_SnapshotDecoupled ==
  [][\A o \in OrderIds : orders[o].exists
        => (orders'[o].items = orders[o].items /\ orders'[o].total = orders[o].total)]_vars

\* The price of p1 has been changed by a finished product update, p2 is
\* deleted, and the stored order of p1 keeps the unit price and the total it
\* had at start-up.
C34_Witness ==
  /\ \E r \in OReq : oreq[r].kind \in {"put", "patch"} /\ oreq[r].pc = "done" /\ oreq[r].status = 200
  /\ products["p1"].price = NewPrice /\ ~products["p2"].exists
  /\ orders[1].exists /\ orders[1].items[1].productId = "p1" /\ orders[1].items[1].price # NewPrice
  /\ orders[1].items = db0.orders[1].items /\ orders[1].total = db0.orders[1].total

\* C35: a key leaves the lock map only in a step of a POST /cart/add that
\* is between its acquire of that key and its release.
C35_ReleasedOnlyByHolder ==
  [][\A k \in cartLocks : k \notin cartLocks'
        => \E r \in CReq : Holding(creq[r]) /\ creq[r].ident = k /\ creq'[r] # creq[r]]_vars

\* C37: when two POST /cart/merge requests of the same user and session
\* have both answered, the user cart holds for every product the user's
\* quantity of start-up plus the guest's quantity of start-up, on one line,
\* and no cart is keyed by the guest session.
C37_MergedAtMostOnce ==
  (\A r \in 1..NPair : creq[r].kind = "merge" /\ creq[r].pc = "done")
    => /\ \A p \in ProductIds : QtyOf(CartItems(carts, "u1"), p) = QtyOf(CartItems(db0.carts, "u1"), p) + QtyOf(CartItems(db0.carts, "s1"), p)
       /\ NoDuplicateProducts(CartItems(carts, "u1"))
       /\ FindOne(carts, "s1") = 0 \/ CartItems(db0.carts, "s1") = <<>>

\* C38: when the only request so far is a POST /orders that has answered
\* and no order has been stored, every product is as it was at start-up.
C38_DecrementBackedByOrder ==
  (/\ oreq[1].kind = "order" /\ oreq[1].pc = "done"
   /\ \A r \in OReq \ {1} : oreq[r].kind = "idle"
   /\ orders = db0.orders)
    => products = db0.products

RECURSIVE QuantityOrdered(_, _)
\* The sum of the quantities of the lines of a snapshot that name product p.
QuantityOrdered(snap, p) ==
  IF snap = <<>> THEN 0
  ELSE (IF Head(snap).productId = p THEN Head(snap).quantity ELSE 0) + QuantityOrdered(Tail(snap), p)

====
